---- MODULE Spec2Model ----
(***************************************************************************)
(* Model of the arkworks-gadgets hash gadgets (MiMC, Poseidon), their      *)
(* parameter allocation and the mixer leaf built on the hash interface.    *)
(*                                                                         *)
(* A circuit variable FpVar<F> is modelled by the field value it carries   *)
(* during witness generation; where the kind of the variable matters       *)
(* (parameter allocation) it is a record [kind, value].                    *)
(***************************************************************************)
EXTENDS Integers, Sequences, FiniteSets, TLC

(***************************************************************************)
(* Field arithmetic and bounds                                             *)
(***************************************************************************)

\* The prime field F, scaled down to the smallest prime for which x^5 is a
\* non-trivial bijection.
FieldModulus == 7

Field == 0..(FieldModulus - 1)

FAdd(a, b) == (a + b) % FieldModulus

FMul(a, b) == (a * b) % FieldModulus

\* Largest parameters.rounds explored for MiMC.
MaxRounds == 4

\* MiMC key k values explored.
KVals == {0, 3}

\* Values the round keys of the Feistel runs are drawn from.
RoundKeyVals == {2, 5}

\* The element of a one-element set. Evaluate({F(v) : v \in {e}}) computes e
\* once and hands its value v to F, however often F uses it; the comparison
\* makes a function value compute its elements once as well.
Evaluate(S) == CHOOSE v \in S : v = v

RECURSIVE SeqsUpTo(_, _)
\* All sequences over S of length at most n.
SeqsUpTo(S, n) ==
    IF n = 0 THEN {<< >>}
    ELSE LET shorter == SeqsUpTo(S, n - 1)
         IN shorter \cup {Append(s, x) : s \in {t \in shorter : Len(t) = n - 1}, x \in S}

VARIABLES
    \* --- one Feistel evaluation (CRHGadget::feistel) ---
    f_parameters,   \* the MiMCParametersVar passed in
    left,           \* argument left
    right,          \* argument right
    x_l,            \* local x_l
    x_r,            \* local x_r
    f_i,            \* loop index i
    f_pc,           \* "loop" | "done" | "panic"
    f_reads,        \* (history) round-key indices read so far, in order
    f_result        \* returned pair, or << >> while running
    ,
    \* --- one Poseidon permutation inside evaluate (CRHGadget::permute) ---
    P,                  \* the Rounds configuration: WIDTH, FULL_ROUNDS, PARTIAL_ROUNDS, SBOX
    parameters,         \* the PoseidonParametersVar passed in
    buffer,             \* (history) the state permute was called with
    state,              \* local state
    round_keys_offset,  \* local round_keys_offset
    round,              \* iterations finished of the current round loop
    i,                  \* index i of the inner loop; WIDTH once the loop is over
    pc,                 \* "first_full" | "partial" | "last_full" | "done" | "panic"
    key_trace,          \* (history) round-key indices read so far, in order
    mixes,              \* (history) linear layers applied so far
    result              \* <<output>> once evaluate has returned, << >> before
    ,
    \* --- one MiMC hash inside evaluate (CRHGadget::mimc) ---
    m_P,            \* the Rounds configuration: WIDTH
    m_parameters,   \* the MiMCParametersVar passed in
    m_state,        \* argument state: the buffer evaluate built
    l_out,          \* local l_out
    r_out,          \* local r_out
    outs,           \* local outs
    m_i,            \* index of the absorbing loop
    m_pc,           \* "call" | "absorb" | "squeeze" | "done" | "panic"
    squeezes,       \* (history) Feistel evaluations made by the squeezing loop
    m_result        \* <<output>> once evaluate has returned, << >> before
    ,
    \* --- one call of the hash interface (CRHGadget / TwoToOneCRHGadget) ---
    gadget,         \* "mimc" | "poseidon": the implementation called
    op,             \* "evaluate" | "two_to_one": the trait method called
    h_P,            \* the Rounds configuration
    h_parameters,   \* argument parameters
    left_input,     \* argument left_input of the two-to-one call
    right_input,    \* argument right_input of the two-to-one call
    input,          \* argument input of evaluate, << >> before it is called
    f_var_inputs,   \* local f_var_inputs of evaluate
    h_buffer,       \* local buffer of evaluate: the state handed to the permutation
    h_pc,           \* "two_to_one" | "evaluate" | "done" | "panic"
    error,          \* why the call panicked, "" if it did not
    h_result        \* <<output>> once evaluate has returned, << >> otherwise
    ,
    \* --- the mixer leaf (MixerLeaf<F, H>) ---
    hasher,         \* H: "mimc" | "poseidon"
    hasher_P,       \* the Rounds configuration of H
    h,              \* argument h: H::Parameters
    secrets,        \* the Private value in use: [r, nullifier, rho]
    input_bytes,    \* local input_bytes of create_leaf
    nullifier_bytes,\* local nullifier_bytes of create_nullifier
    leaf,           \* <<leaf>> returned by create_leaf, << >> before or on failure
    nullifier_hash, \* <<hash>> returned by create_nullifier, << >> likewise
    called          \* the functions called so far
    ,
    \* --- parameter allocation (AllocVar::new_variable) ---
    native_params,  \* the native parameters handed to new_variable
    mode,           \* argument _mode
    cs,             \* the constraint system: its variable and constraint counts
    cs_before,      \* (history) cs when new_variable was called
    params_var,     \* the returned ParametersVar
    a_pc            \* "building" | "allocated"

feistelVars == <<f_parameters, left, right, x_l, x_r, f_i, f_pc, f_reads, f_result>>

poseidonVars == <<P, parameters, buffer, state, round_keys_offset, round, i, pc,
                  key_trace, mixes, result>>

mimcVars == <<m_P, m_parameters, m_state, l_out, r_out, outs, m_i, m_pc, squeezes,
              m_result>>

hashVars == <<gadget, op, h_P, h_parameters, left_input, right_input, input,
              f_var_inputs, h_buffer, h_pc, error, h_result>>

mixerVars == <<hasher, hasher_P, h, secrets, input_bytes, nullifier_bytes, leaf,
               nullifier_hash, called>>

allocVars == <<native_params, mode, cs, cs_before, params_var, a_pc>>

vars == <<feistelVars, poseidonVars, mimcVars, hashVars, mixerVars, allocVars>>

\* The variables of a group while another specification runs.
FeistelIdle ==
    /\ f_parameters = [k |-> 0, rounds |-> 0, num_inputs |-> 0, num_outputs |-> 0,
                       round_keys |-> << >>]
    /\ left = 0 /\ right = 0 /\ x_l = 0 /\ x_r = 0 /\ f_i = 0
    /\ f_pc = "idle" /\ f_reads = << >> /\ f_result = << >>

MimcIdle ==
    /\ m_P = [WIDTH |-> 0, ROUNDS |-> 0]
    /\ m_parameters = [k |-> 0, rounds |-> 0, num_inputs |-> 0, num_outputs |-> 0,
                       round_keys |-> << >>]
    /\ m_state = << >> /\ l_out = 0 /\ r_out = 0 /\ outs = << >> /\ m_i = 0
    /\ m_pc = "idle" /\ squeezes = 0 /\ m_result = << >>

HashIdle ==
    /\ gadget = "none" /\ op = "none"
    /\ h_P = [WIDTH |-> 0, ROUNDS |-> 0]
    /\ h_parameters = [round_keys |-> << >>, mds_matrix |-> << >>]
    /\ left_input = << >> /\ right_input = << >> /\ input = << >>
    /\ f_var_inputs = << >> /\ h_buffer = << >>
    /\ h_pc = "idle" /\ error = "" /\ h_result = << >>

MixerIdle ==
    /\ hasher = "none"
    /\ hasher_P = [WIDTH |-> 0, ROUNDS |-> 0]
    /\ h = [round_keys |-> << >>, mds_matrix |-> << >>]
    /\ secrets = [r |-> 0, nullifier |-> 0, rho |-> 0]
    /\ input_bytes = << >> /\ nullifier_bytes = << >>
    /\ leaf = << >> /\ nullifier_hash = << >> /\ called = {}

AllocIdle ==
    /\ native_params = [round_keys |-> << >>, mds_matrix |-> << >>]
    /\ mode = "none"
    /\ cs = [num_instance_variables |-> 0, num_witness_variables |-> 0,
             num_constraints |-> 0]
    /\ cs_before = cs
    /\ params_var = [round_keys |-> << >>, mds_matrix |-> << >>]
    /\ a_pc = "idle"

PoseidonIdle ==
    /\ P = [WIDTH |-> 0, FULL_ROUNDS |-> 0, PARTIAL_ROUNDS |-> 0, SBOX |-> 0]
    /\ parameters = [round_keys |-> << >>, mds_matrix |-> << >>]
    /\ buffer = << >> /\ state = << >> /\ round_keys_offset = 0 /\ round = 0 /\ i = 0
    /\ pc = "idle" /\ key_trace = << >> /\ mixes = 0 /\ result = << >>

\* What each specification leaves alone.
FeistelFrame == UNCHANGED <<poseidonVars, mimcVars, hashVars, mixerVars, allocVars>>

PoseidonFrame == UNCHANGED <<feistelVars, mimcVars, hashVars, mixerVars, allocVars>>

MimcFrame == UNCHANGED <<feistelVars, poseidonVars, hashVars, mixerVars, allocVars>>

HashFrame == UNCHANGED <<feistelVars, poseidonVars, mimcVars, mixerVars, allocVars>>

MixerFrame == UNCHANGED <<feistelVars, poseidonVars, mimcVars, hashVars, allocVars>>

AllocFrame == UNCHANGED <<feistelVars, poseidonVars, mimcVars, hashVars, mixerVars>>

(***************************************************************************)
(* MiMC: CRHGadget::feistel                                                *)
(***************************************************************************)

\* Whether round ri indexes round_keys (mimc/constraints.rs lines 89-93).
ReadsRoundKey(params, ri) ==
    ~(ri = 0 \/ ri = params.rounds - 1)

\* The index round ri reads is ri - 1; Rust panics when it is out of bounds.
KeyOutOfBounds(params, ri) ==
    ReadsRoundKey(params, ri) /\ ~(ri - 1 < Len(params.round_keys))

\* The round constant c of round ri.
RoundConstant(params, ri) ==
    IF ri = 0 \/ ri = params.rounds - 1
    THEN 0
    ELSE params.round_keys[(ri - 1) + 1]

\* FeistelRound with the boundary asymmetry lost: the last round swaps like
\* every other round.
FeistelRoundSwapLast(params, ri, xl, xr) ==
    LET c  == RoundConstant(params, ri)
        t  == IF ri = 0
              THEN FAdd(params.k, xl)
              ELSE FAdd(FAdd(params.k, xl), c)
        t2 == FMul(t, t)
        t4 == FMul(t2, t2)
    IN  [x_l |-> IF ri = 0 THEN xr ELSE FAdd(xr, FMul(t4, t)),
         x_r |-> xl]

\* One iteration of the loop of feistel (the loop body for index ri).
FeistelRound(params, ri, xl, xr) ==
    LET c  == RoundConstant(params, ri)
        t  == IF ri = 0
              THEN FAdd(params.k, xl)
              ELSE FAdd(FAdd(params.k, xl), c)
        t2 == FMul(t, t)
        t4 == FMul(t2, t2)
        temp_x_l == xl
        temp_x_r == xr
    IN  IF ri < params.rounds - 1
        THEN [x_l |-> IF ri = 0 THEN temp_x_r ELSE FAdd(temp_x_r, FMul(t4, t)),
              x_r |-> temp_x_l]
        ELSE [x_l |-> temp_x_l,
              x_r |-> FAdd(temp_x_r, FMul(t4, t))]

RECURSIVE FeistelFrom(_, _, _, _)
\* The loop of feistel from index ri on; ok = FALSE when an index panics.
FeistelFrom(params, ri, xl, xr) ==
    IF ~(ri < params.rounds)
    THEN [ok |-> TRUE, x_l |-> xl, x_r |-> xr]
    ELSE IF KeyOutOfBounds(params, ri)
    THEN [ok |-> FALSE, x_l |-> xl, x_r |-> xr]
    ELSE Evaluate({FeistelFrom(params, ri + 1, n.x_l, n.x_r) :
                     n \in {FeistelRound(params, ri, xl, xr)}})

\* feistel(params, left, right) as a whole.
feistel(params, l, r) == FeistelFrom(params, 0, l, r)

(***************************************************************************)
(* Specification of one Feistel evaluation, round by round                 *)
(***************************************************************************)

FeistelParams ==
    [k : KVals,
     rounds : 0..MaxRounds,
     num_inputs : {1},
     num_outputs : {1},
     round_keys : SeqsUpTo(RoundKeyVals, MaxRounds - 2)]

FeistelInit ==
    /\ f_parameters \in FeistelParams
    /\ left \in Field
    /\ right \in Field
    /\ x_l = left
    /\ x_r = right
    /\ f_i = 0
    /\ f_pc = "loop"
    /\ f_reads = << >>
    /\ f_result = << >>
    /\ PoseidonIdle
    /\ MimcIdle
    /\ HashIdle
    /\ MixerIdle
    /\ AllocIdle

\* One pass through the loop body.
FeistelStep ==
    /\ f_pc = "loop"
    /\ f_i < f_parameters.rounds
    /\ ~KeyOutOfBounds(f_parameters, f_i)
    /\ \E n \in {FeistelRound(f_parameters, f_i, x_l, x_r)} :
          /\ x_l' = n.x_l
          /\ x_r' = n.x_r
    /\ f_reads' = IF ReadsRoundKey(f_parameters, f_i)
                  THEN Append(f_reads, f_i - 1)
                  ELSE f_reads
    /\ f_i' = f_i + 1
    /\ UNCHANGED <<f_parameters, left, right, f_pc, f_result>>
    /\ FeistelFrame

\* round_keys[i - 1] is out of bounds: the evaluation panics.
FeistelPanic ==
    /\ f_pc = "loop"
    /\ f_i < f_parameters.rounds
    /\ KeyOutOfBounds(f_parameters, f_i)
    /\ f_pc' = "panic"
    /\ f_reads' = Append(f_reads, f_i - 1)
    /\ UNCHANGED <<f_parameters, left, right, x_l, x_r, f_i, f_result>>
    /\ FeistelFrame

\* Ok([x_l, x_r])
FeistelReturn ==
    /\ f_pc = "loop"
    /\ ~(f_i < f_parameters.rounds)
    /\ f_pc' = "done"
    /\ f_result' = <<x_l, x_r>>
    /\ UNCHANGED <<f_parameters, left, right, x_l, x_r, f_i, f_reads>>
    /\ FeistelFrame

FeistelNext == FeistelStep \/ FeistelPanic \/ FeistelReturn

SpecFeistel == FeistelInit /\ [][FeistelNext]_vars

(***************************************************************************)
(* C7: Feistel boundary correctness                                        *)
(***************************************************************************)

Pow5(t) == (t * t * t * t * t) % FieldModulus

\* c_i of the by-hand round sequence: 0 in the first and the last round,
\* otherwise the (i-1)-th round key (0-based).
HandConstant(p, ri) ==
    IF ri = 0 \/ ri = p.rounds - 1 THEN 0 ELSE p.round_keys[ri]

\* Round ri of the by-hand round sequence on the pair <<x_l, x_r>>.
HandRound(p, ri, pair) ==
    LET t == (p.k + pair[1] + HandConstant(p, ri)) % FieldModulus
    IN  IF ri # p.rounds - 1
        THEN <<IF ri = 0 THEN pair[2] ELSE (pair[2] + Pow5(t)) % FieldModulus, pair[1]>>
        ELSE <<pair[1], (pair[2] + Pow5(t)) % FieldModulus>>

RECURSIVE HandAfter(_, _, _)
\* The pair after the first n rounds of the by-hand sequence.
HandAfter(p, n, pair) ==
    IF n = 0 THEN pair ELSE HandRound(p, n - 1, HandAfter(p, n - 1, pair))

\* C7: for ROUNDS >= 1 and at least ROUNDS - 2 round keys, a Feistel
\* evaluation never panics, after every round its pair is the pair of the
\* by-hand round sequence (constant 0 in the first and last round, no swap
\* in the last round, also for ROUNDS = 1), it returns the pair after
\* ROUNDS rounds, and it reads no round-key index outside 0..ROUNDS-3.
FeistelBoundaryCorrect ==
    (f_parameters.rounds >= 1 /\ Len(f_parameters.round_keys) >= f_parameters.rounds - 2)
    => /\ f_pc # "panic"
       /\ <<x_l, x_r>> = HandAfter(f_parameters, f_i, <<left, right>>)
       /\ f_pc = "done" =>
            /\ f_i = f_parameters.rounds
            /\ f_result = HandAfter(f_parameters, f_parameters.rounds, <<left, right>>)
            /\ f_reads = [j \in 1..Len(f_reads) |-> j - 1]
       /\ \A j \in 1..Len(f_reads) :
            f_reads[j] \in 0..(f_parameters.rounds - 3)

\* A finished evaluation of at least three rounds that read every round key
\* it needs and changed the left value.
FeistelBoundaryWitness ==
    /\ f_pc = "done"
    /\ f_parameters.rounds >= 3
    /\ Len(f_reads) = f_parameters.rounds - 2
    /\ f_result[1] # left
    /\ f_result[2] # right

(***************************************************************************)
(* Poseidon: CRHGadget::permute, apply_linear_layer                        *)
(***************************************************************************)

\* Largest P::WIDTH explored.
MaxWidth == 2

\* Largest P::FULL_ROUNDS explored (odd values included: the code halves it).
MaxFullRounds == 3

\* Largest P::PARTIAL_ROUNDS explored.
MaxPartialRounds == 2

\* Degrees of PoseidonSbox::Exponentiation explored.
SboxDegrees == {3, 5}

\* Values the elements of an input state are drawn from.
InputVals == {0, 1, 5}

\* The j-th (1-based) entry of the fixed test round-key stream.
RoundKeyAt(j) == (3 * j * j + j + 2) % FieldModulus

\* The first n round keys of the test stream.
KeyStream(n) == [j \in 1..n |-> RoundKeyAt(j)]

\* The fixed, non-symmetric w x w test mixing matrix.
MdsMatrix(w) == [a \in 1..w |-> [b \in 1..w |-> (2 * a + b) % FieldModulus]]

RECURSIVE FPow(_, _)
\* x^d by repeated squaring.
FPow(x, d) ==
    IF d = 0 THEN 1
    ELSE IF d % 2 = 0
    THEN LET half == FPow(x, d \div 2) IN FMul(half, half)
    ELSE FMul(x, FPow(x, d - 1))

\* PoseidonSbox::Exponentiation(degree).synthesize_sbox(x)
synthesize_sbox(degree, x) == FPow(x, degree)

\* The index of round_keys read at cursor off while the inner loop is at idx,
\* with the cursor restarted at every round.
RoundKeyIndexPerRound(off, idx) == idx

\* The index of round_keys read at cursor off while the inner loop is at idx.
RoundKeyIndex(off, idx) == off

\* state[i] += &parameters.round_keys[round_keys_offset]
AddRoundKey(params, st, idx, off) ==
    [st EXCEPT ![idx + 1] = FAdd(@, params.round_keys[RoundKeyIndex(off, idx) + 1])]

\* state[i] = P::SBOX.synthesize_sbox(&state[i])?
ApplySbox(cfg, st, idx) ==
    [st EXCEPT ![idx + 1] = synthesize_sbox(cfg.SBOX, @)]

RECURSIVE RowSum(_, _, _)
\* sc after the first n iterations of the inner loop of apply_linear_layer.
RowSum(row, st, n) ==
    IF n = 0 THEN 0 ELSE FAdd(RowSum(row, st, n - 1), FMul(row[n], st[n]))

\* apply_linear_layer reading the matrix transposed.
ApplyLinearLayerTransposed(st, mds) ==
    Evaluate({[a \in 1..Len(v) |-> RowSum([b \in 1..Len(v) |-> mds[b][a]], v, Len(v))] :
                v \in {st}})

\* apply_linear_layer(state, mds_matrix)
apply_linear_layer(st, mds) ==
    Evaluate({[a \in 1..Len(v) |-> RowSum(mds[a], v, Len(v))] : v \in {st}})

\* Iterations of the loop of phase ph: P::FULL_ROUNDS / 2 or P::PARTIAL_ROUNDS.
PhaseRounds(cfg, ph) ==
    IF ph = "partial" THEN cfg.PARTIAL_ROUNDS ELSE cfg.FULL_ROUNDS \div 2

(***************************************************************************)
(* Specification of one permutation, element by element                    *)
(***************************************************************************)

PoseidonConfigs ==
    [WIDTH : 1..MaxWidth,
     FULL_ROUNDS : 0..MaxFullRounds,
     PARTIAL_ROUNDS : 0..MaxPartialRounds,
     SBOX : SboxDegrees]

\* Parameters for cfg: the mixing matrix and either WIDTH * (FULL_ROUNDS +
\* PARTIAL_ROUNDS) round keys or a shorter supply.
PoseidonParams(cfg) ==
    {[round_keys |-> KeyStream(n), mds_matrix |-> MdsMatrix(cfg.WIDTH)] :
        n \in {cfg.WIDTH * (cfg.FULL_ROUNDS + cfg.PARTIAL_ROUNDS),
               cfg.WIDTH * cfg.PARTIAL_ROUNDS}}

PoseidonInit ==
    /\ P \in PoseidonConfigs
    /\ parameters \in PoseidonParams(P)
    /\ buffer \in [1..P.WIDTH -> InputVals]
    /\ state = buffer
    /\ round_keys_offset = 0
    /\ round = 0
    /\ i = 0
    /\ pc = "first_full"
    /\ key_trace = << >>
    /\ mixes = 0
    /\ result = << >>
    /\ FeistelIdle
    /\ MimcIdle
    /\ HashIdle
    /\ MixerIdle
    /\ AllocIdle

InRound(ph) ==
    /\ pc = ph
    /\ round < PhaseRounds(P, ph)

KeyInBounds ==
    RoundKeyIndex(round_keys_offset, i) < Len(parameters.round_keys)

\* One iteration of the inner loop of a full round: add the key, apply the S-box.
FullRoundElement(ph) ==
    /\ InRound(ph)
    /\ i < P.WIDTH
    /\ KeyInBounds
    /\ state' = ApplySbox(P, AddRoundKey(parameters, state, i, round_keys_offset), i)
    /\ key_trace' = Append(key_trace, RoundKeyIndex(round_keys_offset, i))
    /\ round_keys_offset' = round_keys_offset + 1
    /\ i' = i + 1
    /\ UNCHANGED <<P, parameters, buffer, round, pc, mixes, result>>
    /\ PoseidonFrame

\* The end of a full round: the linear layer.
FullRoundLinearLayer(ph) ==
    /\ InRound(ph)
    /\ i = P.WIDTH
    /\ state' = apply_linear_layer(state, parameters.mds_matrix)
    /\ mixes' = mixes + 1
    /\ round' = round + 1
    /\ i' = 0
    /\ UNCHANGED <<P, parameters, buffer, round_keys_offset, pc, key_trace, result>>
    /\ PoseidonFrame

\* One iteration of the inner loop of a partial round: add the key.
PartialRoundElement ==
    /\ InRound("partial")
    /\ i < P.WIDTH
    /\ KeyInBounds
    /\ state' = AddRoundKey(parameters, state, i, round_keys_offset)
    /\ key_trace' = Append(key_trace, RoundKeyIndex(round_keys_offset, i))
    /\ round_keys_offset' = round_keys_offset + 1
    /\ i' = i + 1
    /\ UNCHANGED <<P, parameters, buffer, round, pc, mixes, result>>
    /\ PoseidonFrame

\* The end of a partial round: the S-box on state[0], then the linear layer.
PartialRoundSboxLinearLayer ==
    /\ InRound("partial")
    /\ i = P.WIDTH
    /\ state' = apply_linear_layer(ApplySbox(P, state, 0), parameters.mds_matrix)
    /\ mixes' = mixes + 1
    /\ round' = round + 1
    /\ i' = 0
    /\ UNCHANGED <<P, parameters, buffer, round_keys_offset, pc, key_trace, result>>
    /\ PoseidonFrame

\* parameters.round_keys[round_keys_offset] is out of bounds: permute panics.
RoundKeyPanic ==
    /\ pc \in {"first_full", "partial", "last_full"}
    /\ round < PhaseRounds(P, pc)
    /\ i < P.WIDTH
    /\ ~KeyInBounds
    /\ pc' = "panic"
    /\ UNCHANGED <<P, parameters, buffer, state, round_keys_offset, round, i,
                   key_trace, mixes, result>>
    /\ PoseidonFrame

\* A round loop is over: the next loop starts. The cursor is left as it is.
PhaseDone(ph, next) ==
    /\ pc = ph
    /\ ~(round < PhaseRounds(P, ph))
    /\ pc' = next
    /\ round' = 0
    /\ UNCHANGED <<P, parameters, buffer, state, round_keys_offset, i,
                   key_trace, mixes, result>>
    /\ PoseidonFrame

\* Ok(state), and evaluate returns x.get(0).
PermuteReturn ==
    /\ pc = "last_full"
    /\ ~(round < PhaseRounds(P, "last_full"))
    /\ pc' = "done"
    /\ result' = <<state[1]>>
    /\ UNCHANGED <<P, parameters, buffer, state, round_keys_offset, round, i,
                   key_trace, mixes>>
    /\ PoseidonFrame

PoseidonNext ==
    \/ FullRoundElement("first_full")
    \/ FullRoundLinearLayer("first_full")
    \/ PhaseDone("first_full", "partial")
    \/ PartialRoundElement
    \/ PartialRoundSboxLinearLayer
    \/ PhaseDone("partial", "last_full")
    \/ FullRoundElement("last_full")
    \/ FullRoundLinearLayer("last_full")
    \/ PermuteReturn
    \/ RoundKeyPanic

SpecPoseidon == PoseidonInit /\ [][PoseidonNext]_vars

(***************************************************************************)
(* C8: the round-key cursor                                                *)
(***************************************************************************)

\* Rounds the permutation runs in all: twice FULL_ROUNDS / 2, and PARTIAL_ROUNDS.
RoundsRun(cfg) == 2 * (cfg.FULL_ROUNDS \div 2) + cfg.PARTIAL_ROUNDS

\* C8 as stated: the cursor is the number of key additions so far, the m-th
\* addition (from 0) read round_keys[m], every finished round consumed WIDTH
\* keys, and at termination the cursor is WIDTH * (FULL_ROUNDS + PARTIAL_ROUNDS).
CursorEndsAtAllRounds ==
    /\ round_keys_offset = Len(key_trace)
    /\ key_trace = [m \in 1..Len(key_trace) |-> m - 1]
    /\ pc # "idle" => round_keys_offset = P.WIDTH * mixes + i
    /\ pc = "done" =>
         round_keys_offset = P.WIDTH * (P.FULL_ROUNDS + P.PARTIAL_ROUNDS)

\* C8 (amended): the cursor starts at 0, is the number of key additions made
\* so far, the m-th addition (from 0, across all three phases) read
\* round_keys[m], every finished round consumed exactly WIDTH keys, and at
\* termination the cursor is WIDTH * (2 * (FULL_ROUNDS / 2) + PARTIAL_ROUNDS),
\* which is WIDTH * (FULL_ROUNDS + PARTIAL_ROUNDS) when FULL_ROUNDS is even.
CursorSequential ==
    pc # "idle" =>
      /\ round_keys_offset = Len(key_trace)
      /\ key_trace = [m \in 1..Len(key_trace) |-> m - 1]
      /\ round_keys_offset = P.WIDTH * mixes + i
      /\ i \in 0..P.WIDTH
      /\ pc = "done" =>
           /\ round_keys_offset = P.WIDTH * RoundsRun(P)
           /\ P.FULL_ROUNDS % 2 = 0 =>
                round_keys_offset = P.WIDTH * (P.FULL_ROUNDS + P.PARTIAL_ROUNDS)

\* A finished permutation that went through all three phases with keys added
\* in each.
CursorWitness ==
    /\ pc = "done"
    /\ P.FULL_ROUNDS >= 2
    /\ P.PARTIAL_ROUNDS >= 1
    /\ P.WIDTH >= 2
    /\ round_keys_offset = P.WIDTH * RoundsRun(P)
    /\ Len(key_trace) >= 3 * P.WIDTH

(***************************************************************************)
(* C9: the phase structure                                                 *)
(***************************************************************************)

\* The S-box of the configuration, whatever it computes.
HandSbox(cfg, x) == synthesize_sbox(cfg.SBOX, x)

\* Whether round m (from 0) is a full round: the first and the last
\* FULL_ROUNDS / 2 rounds are, the PARTIAL_ROUNDS rounds between are not.
HandIsFull(cfg, m) ==
    \/ m < cfg.FULL_ROUNDS \div 2
    \/ m >= (cfg.FULL_ROUNDS \div 2) + cfg.PARTIAL_ROUNDS

\* Element j (from 1) of the state of round m after its key addition: the
\* keys are taken in order, WIDTH per round.
HandKeyed(cfg, params, m, st, j) ==
    (st[j] + params.round_keys[m * cfg.WIDTH + j]) % FieldModulus

\* Element j of the state of round m after the substitution layer, of which
\* the first upto elements have been processed.
HandSubstituted(cfg, params, m, st, j, upto) ==
    IF j > upto THEN st[j]
    ELSE IF HandIsFull(cfg, m)
    THEN HandSbox(cfg, HandKeyed(cfg, params, m, st, j))
    ELSE HandKeyed(cfg, params, m, st, j)

RECURSIVE HandDot(_, _, _)
\* The sum over j <= n of row[j] * v[j].
HandDot(row, v, n) ==
    IF n = 0 THEN 0 ELSE (HandDot(row, v, n - 1) + row[n] * v[n]) % FieldModulus

\* The state after round m on st: substitution layer, for a partial round
\* then the S-box on element 0 alone, then one mixing step from the pre-mix
\* state.
HandRoundOut(cfg, params, m, st) ==
    LET w == cfg.WIDTH
        sub == [j \in 1..w |-> HandSubstituted(cfg, params, m, st, j, w)]
        pre == IF HandIsFull(cfg, m)
               THEN sub
               ELSE [sub EXCEPT ![1] = HandSbox(cfg, @)]
    IN  [a \in 1..w |-> HandDot(params.mds_matrix[a], pre, w)]

RECURSIVE HandState(_, _, _, _)
\* The state after the first n rounds on st0.
HandState(cfg, params, n, st0) ==
    IF n = 0 THEN st0
    ELSE HandRoundOut(cfg, params, n - 1, HandState(cfg, params, n - 1, st0))

MaxOutputs == 2

\* x.last(): the last output instead of the first.
LastOutput(x) == x[Len(x)]

\* x.get(0) of evaluate.
FirstOutput(x) == x[1]

\* The arguments l and r of the Feistel evaluation of absorbing iteration idx.
AbsorbLeft(st, idx, lo) == IF idx = 0 THEN st[idx + 1] ELSE FAdd(lo, st[idx + 1])

AbsorbRight(idx, ro) == IF idx = 0 THEN 0 ELSE ro

(***************************************************************************)
(* Specification of one mimc call, Feistel evaluation by Feistel evaluation*)
(***************************************************************************)

MimcConfigs == [WIDTH : 1..MaxWidth, ROUNDS : {MaxRounds}]

MimcParams ==
    [k : KVals,
     rounds : 0..MaxRounds,
     num_inputs : 1..MaxWidth,
     num_outputs : 0..MaxOutputs,
     round_keys : {KeyStream(MaxRounds), KeyStream(1)}]

MimcInit ==
    /\ m_P \in MimcConfigs
    /\ m_parameters \in MimcParams
    /\ m_state \in [1..m_P.WIDTH -> InputVals]
    /\ l_out = 0
    /\ r_out = 0
    /\ outs = << >>
    /\ m_i = 0
    /\ m_pc = "call"
    /\ squeezes = 0
    /\ m_result = << >>
    /\ FeistelIdle
    /\ PoseidonIdle
    /\ HashIdle
    /\ MixerIdle
    /\ AllocIdle

\* assert!(state.len() == parameters.num_inputs), then the locals.
MimcEnter ==
    /\ m_pc = "call"
    /\ m_pc' = IF Len(m_state) = m_parameters.num_inputs THEN "absorb" ELSE "panic"
    /\ UNCHANGED <<m_P, m_parameters, m_state, l_out, r_out, outs, m_i, squeezes,
                   m_result>>
    /\ MimcFrame

\* One iteration of the absorbing loop.
MimcAbsorb ==
    /\ m_pc = "absorb"
    /\ m_i < Len(m_state)
    /\ \E res \in {feistel(m_parameters, AbsorbLeft(m_state, m_i, l_out),
                             AbsorbRight(m_i, r_out))} :
           IF res.ok
           THEN /\ l_out' = res.x_l
                /\ r_out' = res.x_r
                /\ m_i' = m_i + 1
                /\ m_pc' = m_pc
           ELSE /\ m_pc' = "panic"
                /\ UNCHANGED <<l_out, r_out, m_i>>
    /\ UNCHANGED <<m_P, m_parameters, m_state, outs, squeezes, m_result>>
    /\ MimcFrame

\* The absorbing loop is over: outs = vec![]; outs.push(l_out).
MimcStartSqueeze ==
    /\ m_pc = "absorb"
    /\ ~(m_i < Len(m_state))
    /\ outs' = <<l_out>>
    /\ m_pc' = "squeeze"
    /\ UNCHANGED <<m_P, m_parameters, m_state, l_out, r_out, m_i, squeezes, m_result>>
    /\ MimcFrame

\* One iteration of the squeezing loop.
MimcSqueeze ==
    /\ m_pc = "squeeze"
    /\ squeezes < m_parameters.num_outputs
    /\ \E res \in {feistel(m_parameters, l_out, r_out)} :
           IF res.ok
           THEN /\ l_out' = res.x_l
                /\ r_out' = res.x_r
                /\ outs' = Append(outs, res.x_l)
                /\ squeezes' = squeezes + 1
                /\ m_pc' = m_pc
           ELSE /\ m_pc' = "panic"
                /\ UNCHANGED <<l_out, r_out, outs, squeezes>>
    /\ UNCHANGED <<m_P, m_parameters, m_state, m_i, m_result>>
    /\ MimcFrame

\* Ok(outs), and evaluate returns x.get(0).
MimcReturn ==
    /\ m_pc = "squeeze"
    /\ ~(squeezes < m_parameters.num_outputs)
    /\ m_result' = <<FirstOutput(outs)>>
    /\ m_pc' = "done"
    /\ UNCHANGED <<m_P, m_parameters, m_state, l_out, r_out, outs, m_i, squeezes>>
    /\ MimcFrame

MimcNext ==
    \/ MimcEnter
    \/ MimcAbsorb
    \/ MimcStartSqueeze
    \/ MimcSqueeze
    \/ MimcReturn

SpecMimc == MimcInit /\ [][MimcNext]_vars

(***************************************************************************)
(* C6: the MiMC hash output                                                *)
(***************************************************************************)

RECURSIVE HandAbsorb(_, _, _)
\* The pair after absorbing the first n elements of st: the first element is
\* evaluated with right value 0, each later one is added to the running left
\* value and evaluated with the running right value. num_outputs plays no part.
HandAbsorb(params, st, n) ==
    LET keyed == [params EXCEPT !.num_outputs = 0]
    IN  IF n = 1
        THEN feistel(keyed, st[1], 0)
        ELSE LET prev == HandAbsorb(params, st, n - 1)
             IN feistel(keyed, (prev.x_l + st[n]) % FieldModulus, prev.x_r)

\* C6: while absorbing, the running pair is the by-hand absorption of the
\* elements visited so far; the hash evaluate returns is the left value of
\* the absorption of all WIDTH state elements, the first output of the
\* squeeze phase, whatever num_outputs is.
MimcHashOutput ==
    /\ (m_pc \in {"absorb", "squeeze", "done"} /\ m_i >= 1) =>
         LET ha == HandAbsorb(m_parameters, m_state, m_i)
         IN  m_pc = "absorb" => (l_out = ha.x_l /\ r_out = ha.x_r)
    /\ m_pc \in {"squeeze", "done"} =>
         /\ m_i = m_P.WIDTH
         /\ outs[1] = HandAbsorb(m_parameters, m_state, m_P.WIDTH).x_l
    /\ m_pc = "done" =>
         m_result = <<HandAbsorb(m_parameters, m_state, m_P.WIDTH).x_l>>

\* A finished hash of a zero-padded state of at least two elements whose
\* squeeze phase produced a second, different output.
MimcHashOutputWitness ==
    /\ m_pc = "done"
    /\ m_P.WIDTH >= 2
    /\ m_state[m_P.WIDTH] = 0
    /\ m_state[1] # 0
    /\ m_parameters.rounds >= 3
    /\ m_parameters.num_outputs >= 1
    /\ outs[2] # outs[1]
    /\ m_result = <<outs[1]>>

(***************************************************************************)
(* C10: the MiMC squeeze count                                             *)
(***************************************************************************)

\* C10 as stated: after absorbing, mimc makes num_outputs further Feistel
\* evaluations and returns exactly num_outputs outputs, the first of them
\* the result of the last absorption.
MimcSqueezeCount ==
    m_pc = "done" =>
      /\ squeezes = m_parameters.num_outputs
      /\ Len(outs) = m_parameters.num_outputs
      /\ outs[1] = HandAbsorb(m_parameters, m_state, m_P.WIDTH).x_l

(***************************************************************************)
(* The permutations as functions of their arguments                        *)
(***************************************************************************)

RECURSIVE MimcAbsorbFrom(_, _, _, _, _)
\* The absorbing loop of mimc from index idx on.
MimcAbsorbFrom(params, st, idx, lo, ro) ==
    IF ~(idx < Len(st))
    THEN [ok |-> TRUE, l_out |-> lo, r_out |-> ro]
    ELSE Evaluate({IF res.ok
                   THEN MimcAbsorbFrom(params, st, idx + 1, res.x_l, res.x_r)
                   ELSE [ok |-> FALSE, l_out |-> lo, r_out |-> ro] :
                     res \in {feistel(params, AbsorbLeft(st, idx, lo),
                                      AbsorbRight(idx, ro))}})

RECURSIVE MimcSqueezeFrom(_, _, _, _, _)
\* The squeezing loop of mimc with n iterations left.
MimcSqueezeFrom(params, n, lo, ro, acc) ==
    IF n = 0
    THEN [ok |-> TRUE, outs |-> acc]
    ELSE Evaluate({IF res.ok
                   THEN MimcSqueezeFrom(params, n - 1, res.x_l, res.x_r,
                                        Append(acc, res.x_l))
                   ELSE [ok |-> FALSE, outs |-> acc] :
                     res \in {feistel(params, lo, ro)}})

\* mimc(parameters, state): the outputs, or the reason of the panic.
mimc(params, st) ==
    IF Len(st) # params.num_inputs
    THEN [ok |-> FALSE, outs |-> << >>, error |-> "num_inputs"]
    ELSE Evaluate({
           IF ~a.ok
           THEN [ok |-> FALSE, outs |-> << >>, error |-> "index"]
           ELSE Evaluate({IF q.ok
                          THEN [ok |-> TRUE, outs |-> q.outs, error |-> ""]
                          ELSE [ok |-> FALSE, outs |-> << >>, error |-> "index"] :
                            q \in {MimcSqueezeFrom(params, params.num_outputs,
                                                   a.l_out, a.r_out, <<a.l_out>>)}}) :
             a \in {MimcAbsorbFrom(params, st, 0, 0, 0)}})

RECURSIVE RoundElementsFrom(_, _, _, _, _, _)
\* The inner loop of a round of phase ph from index idx on, cursor at off.
RoundElementsFrom(cfg, params, ph, st, idx, off) ==
    IF ~(idx < cfg.WIDTH)
    THEN [ok |-> TRUE, state |-> st, off |-> off]
    ELSE IF ~(RoundKeyIndex(off, idx) < Len(params.round_keys))
    THEN [ok |-> FALSE, state |-> st, off |-> off]
    ELSE Evaluate({RoundElementsFrom(
                        cfg, params, ph,
                        IF ph = "partial" THEN keyed ELSE ApplySbox(cfg, keyed, idx),
                        idx + 1, off + 1) :
                     keyed \in {AddRoundKey(params, st, idx, off)}})

RECURSIVE PhaseFrom(_, _, _, _, _, _)
\* The round loop of phase ph with n iterations left.
PhaseFrom(cfg, params, ph, n, st, off) ==
    IF n = 0
    THEN [ok |-> TRUE, state |-> st, off |-> off]
    ELSE Evaluate({
           IF ~e.ok
           THEN e
           ELSE Evaluate({PhaseFrom(cfg, params, ph, n - 1, mixed, e.off) :
                            mixed \in {apply_linear_layer(
                                          IF ph = "partial"
                                          THEN ApplySbox(cfg, e.state, 0)
                                          ELSE e.state,
                                          params.mds_matrix)}}) :
             e \in {RoundElementsFrom(cfg, params, ph, st, 0, off)}})

\* permute(parameters, state): the final state, or ok = FALSE on a panic.
permute(cfg, params, st) ==
    Evaluate({
      IF ~a.ok THEN a
      ELSE Evaluate({
             IF ~b.ok THEN b
             ELSE PhaseFrom(cfg, params, "last_full", PhaseRounds(cfg, "last_full"),
                            b.state, b.off) :
               b \in {PhaseFrom(cfg, params, "partial", PhaseRounds(cfg, "partial"),
                                a.state, a.off)}}) :
        a \in {PhaseFrom(cfg, params, "first_full", PhaseRounds(cfg, "first_full"),
                         st, 0)}})

\* The element-by-element specifications compute these functions.
PermuteStepwiseAgrees ==
    /\ pc = "done" =>
         LET r == permute(P, parameters, buffer)
         IN r.ok /\ state = r.state /\ round_keys_offset = r.off
    /\ pc = "panic" => ~permute(P, parameters, buffer).ok

MimcStepwiseAgrees ==
    /\ m_pc = "done" =>
         LET r == mimc(m_parameters, m_state)
         IN r.ok /\ outs = r.outs
    /\ m_pc = "panic" => ~mimc(m_parameters, m_state).ok

(***************************************************************************)
(* Input packing (crate::utils, described in section 4.1 of the            *)
(* specification)                                                          *)
(***************************************************************************)

\* Bytes per field element, scaled down from F::BigInt::NUM_LIMBS * 8 = 32.
ChunkSize == 2

\* A byte is a value below 256.
ByteBase == 256

\* Byte values the inputs are drawn from.
ByteVals == {1, 255}

\* Longest input of a direct evaluate call.
MaxInputLen == 5

\* Longest left_input and right_input of a two-to-one call: one chunk each.
MaxHalfLen == ChunkSize

RECURSIVE Chunks(_)
\* bytes.chunks(ChunkSize): the last chunk may be shorter.
Chunks(bytes) ==
    IF bytes = << >> THEN << >>
    ELSE LET n == IF Len(bytes) < ChunkSize THEN Len(bytes) ELSE ChunkSize
         IN <<SubSeq(bytes, 1, n)>> \o Chunks(SubSeq(bytes, n + 1, Len(bytes)))

RECURSIVE Pow2(_)
Pow2(n) == IF n = 0 THEN 1 ELSE 2 * Pow2(n - 1)

\* The bits of a chunk, little-endian, byte after byte.
ToBitsLe(chunk) ==
    [b \in 1..(8 * Len(chunk)) |->
        (chunk[((b - 1) \div 8) + 1] \div Pow2((b - 1) % 8)) % 2]

RECURSIVE LeBitsToField(_, _)
\* The field element with the first n of the little-endian bits.
LeBitsToField(bits, n) ==
    IF n = 0 THEN 0
    ELSE (LeBitsToField(bits, n - 1) + bits[n] * Pow2(n - 1)) % FieldModulus

\* Gadget packing: one variable per chunk, from the bits of the chunk.
to_field_var_elements(bytes) ==
    LET chunks == Chunks(bytes)
    IN Evaluate({[c \in 1..Len(v) |->
                    Evaluate({LeBitsToField(bits, Len(bits)) :
                                bits \in {ToBitsLe(v[c])}})] : v \in {chunks}})

RECURSIVE LeBytesToInt(_)
\* The integer with the given little-endian bytes.
LeBytesToInt(bytes) ==
    IF bytes = << >> THEN 0 ELSE bytes[1] + ByteBase * LeBytesToInt(Tail(bytes))

\* Native packing: each chunk is copied into a zeroed buffer of ChunkSize
\* bytes that is read as a little-endian field element.
to_field_elements(bytes) ==
    LET chunks == Chunks(bytes)
    IN [c \in 1..Len(chunks) |->
          LeBytesToInt(chunks[c] \o [z \in 1..(ChunkSize - Len(chunks[c])) |-> 0])
            % FieldModulus]

(***************************************************************************)
(* The hash interface of the gadgets: evaluate and the two-to-one evaluate *)
(***************************************************************************)

\* f_var_inputs.len() >= P::WIDTH: the check off by one.
WidthReached(n, w) == n >= w

\* f_var_inputs.len() > P::WIDTH
WidthExceeded(n, w) == n > w

\* A buffer with the zeros first and the packed elements at its end.
ZeroPaddedBufferLeft(f, w) ==
    [j \in 1..w |-> IF j <= w - Len(f) THEN 0 ELSE f[j - (w - Len(f))]]

\* vec![FpVar::zero(); P::WIDTH] with the packed elements zipped over it.
ZeroPaddedBuffer(f, w) == [j \in 1..w |-> IF j <= Len(f) THEN f[j] ELSE 0]

\* right_input chained before left_input.
ChainedSwapped(l, r) == r \o l

\* left_input chained with right_input.
Chained(l, r) == l \o r

\* CRHGadget::evaluate of the MiMC gadget: its locals, its output and error.
MimcEvaluate(cfg, params, bytes) ==
    Evaluate({
      IF WidthExceeded(Len(f), cfg.WIDTH)
      THEN [f_var_inputs |-> f, buffer |-> << >>, result |-> << >>, error |-> "width"]
      ELSE Evaluate({
             Evaluate({[f_var_inputs |-> f, buffer |-> b,
                        result |-> IF r.ok THEN <<FirstOutput(r.outs)>> ELSE << >>,
                        error |-> r.error] :
                          r \in {mimc(params, b)}}) :
               b \in {ZeroPaddedBuffer(f, cfg.WIDTH)}}) :
        f \in {to_field_var_elements(bytes)}})

\* CRHGadget::evaluate of the Poseidon gadget: its locals, its output and error.
PoseidonEvaluate(cfg, params, bytes) ==
    Evaluate({
      IF WidthExceeded(Len(f), cfg.WIDTH)
      THEN [f_var_inputs |-> f, buffer |-> << >>, result |-> << >>, error |-> "width"]
      ELSE Evaluate({
             Evaluate({[f_var_inputs |-> f, buffer |-> b,
                        result |-> IF r.ok THEN <<r.state[1]>> ELSE << >>,
                        error |-> IF r.ok THEN "" ELSE "index"] :
                          r \in {permute(cfg, params, b)}}) :
               b \in {ZeroPaddedBuffer(f, cfg.WIDTH)}}) :
        f \in {to_field_var_elements(bytes)}})

GadgetEvaluate(g, cfg, params, bytes) ==
    IF g = "mimc" THEN MimcEvaluate(cfg, params, bytes)
                  ELSE PoseidonEvaluate(cfg, params, bytes)

\* The MiMC parameters of the interface calls: evaluate reads outs[0] alone,
\* so only the extreme values of num_outputs are taken.
HashMimcParams == {q \in MimcParams : q.num_outputs \in {0, MaxOutputs}}

\* All byte strings over ByteVals of length at most n.
ByteStrings(n) == SeqsUpTo(ByteVals, n)

HashInit ==
    /\ gadget \in {"mimc", "poseidon"}
    /\ op \in {"evaluate", "two_to_one"}
    /\ h_P \in IF gadget = "mimc" THEN MimcConfigs ELSE PoseidonConfigs
    /\ h_parameters \in IF gadget = "mimc" THEN HashMimcParams ELSE PoseidonParams(h_P)
    /\ IF op = "evaluate"
       THEN /\ input \in ByteStrings(MaxInputLen)
            /\ left_input = << >>
            /\ right_input = << >>
       ELSE /\ input = << >>
            /\ left_input \in ByteStrings(MaxHalfLen)
            /\ right_input \in ByteStrings(MaxHalfLen)
    /\ h_pc = op
    /\ f_var_inputs = << >>
    /\ h_buffer = << >>
    /\ error = ""
    /\ h_result = << >>
    /\ FeistelIdle
    /\ PoseidonIdle
    /\ MimcIdle
    /\ MixerIdle
    /\ AllocIdle

\* TwoToOneCRHGadget::evaluate of gadget g, its call of evaluate included.
TwoToOneEvaluate(g) ==
    /\ gadget = g
    /\ h_pc = "two_to_one"
    /\ IF Len(left_input) = Len(right_input)
       THEN \E chained \in {Chained(left_input, right_input)} :
            \E e \in {GadgetEvaluate(g, h_P, h_parameters, chained)} :
               /\ input' = chained
               /\ f_var_inputs' = e.f_var_inputs
               /\ h_buffer' = e.buffer
               /\ h_result' = e.result
               /\ error' = e.error
               /\ h_pc' = IF e.error = "" THEN "done" ELSE "panic"
       ELSE /\ h_pc' = "panic"
            /\ error' = "length_mismatch"
            /\ UNCHANGED <<input, f_var_inputs, h_buffer, h_result>>
    /\ UNCHANGED <<gadget, op, h_P, h_parameters, left_input, right_input>>
    /\ HashFrame

\* CRHGadget::evaluate of gadget g.
CRHEvaluate(g) ==
    /\ gadget = g
    /\ h_pc = "evaluate"
    /\ \E e \in {GadgetEvaluate(g, h_P, h_parameters, input)} :
           /\ f_var_inputs' = e.f_var_inputs
           /\ h_buffer' = e.buffer
           /\ h_result' = e.result
           /\ error' = e.error
           /\ h_pc' = IF e.error = "" THEN "done" ELSE "panic"
    /\ UNCHANGED <<gadget, op, h_P, h_parameters, left_input, right_input, input>>
    /\ HashFrame

Next ==
    \/ TwoToOneEvaluate("mimc")
    \/ TwoToOneEvaluate("poseidon")
    \/ CRHEvaluate("mimc")
    \/ CRHEvaluate("poseidon")

Spec == HashInit /\ [][Next]_vars

(***************************************************************************)
(* The native hashes (mimc/mod.rs and poseidon/mod.rs), as sections 4.1,   *)
(* 4.3, 4.4 and 4.5 of the specification describe them                     *)
(***************************************************************************)

\* Round ri of one native Feistel evaluation on the pair <<x_l, x_r>>.
NativeFeistelRound(params, ri, pair) ==
    LET c  == IF ri = 0 \/ ri = params.rounds - 1 THEN 0 ELSE params.round_keys[ri]
        t  == IF ri = 0 THEN (params.k + pair[1]) % FieldModulus
                        ELSE (params.k + pair[1] + c) % FieldModulus
        t2 == (t * t) % FieldModulus
        t4 == (t2 * t2) % FieldModulus
        t5 == (t4 * t) % FieldModulus
    IN  IF ri # params.rounds - 1
        THEN <<IF ri = 0 THEN pair[2] ELSE (pair[2] + t5) % FieldModulus, pair[1]>>
        ELSE <<pair[1], (pair[2] + t5) % FieldModulus>>

RECURSIVE NativeFeistelAfter(_, _, _)
\* The pair after the first n rounds.
NativeFeistelAfter(params, n, pair) ==
    IF n = 0 THEN pair
    ELSE Evaluate({NativeFeistelRound(params, n - 1, prev) :
                     prev \in {NativeFeistelAfter(params, n - 1, pair)}})

RECURSIVE NativeAbsorb(_, _, _)
\* The pair after absorbing the first n inputs: the running left value
\* accumulates += input before each evaluation.
NativeAbsorb(params, st, n) ==
    IF n = 0 THEN <<0, 0>>
    ELSE Evaluate({NativeFeistelAfter(params, params.rounds,
                                      <<(prev[1] + st[n]) % FieldModulus, prev[2]>>) :
                     prev \in {NativeAbsorb(params, st, n - 1)}})

\* The first output of the squeeze phase: x_l after the absorption.
NativeMimc(params, st) == NativeAbsorb(params, st, Len(st))[1]

\* One native round of the given kind on st with the cursor at off: the new
\* state. Every element gets the next round key; a full round applies the
\* S-box to every element, a partial round to element 0 only; then one mix.
NativePoseidonRound(cfg, params, full, st, off) ==
    LET w     == cfg.WIDTH
        keyed == [j \in 1..w |-> (st[j] + params.round_keys[off + j]) % FieldModulus]
        sub   == [j \in 1..w |-> IF full \/ j = 1 THEN FPow(keyed[j], cfg.SBOX)
                                                   ELSE keyed[j]]
    IN  Evaluate({[a \in 1..w |->
                     LET dot[n \in 0..w] ==
                           IF n = 0 THEN 0
                           ELSE (dot[n - 1] + params.mds_matrix[a][n] * v[n])
                                  % FieldModulus
                     IN dot[w]] : v \in {sub}})

RECURSIVE NativePoseidonAfter(_, _, _, _)
\* The state after the first n rounds of the three phases, the cursor shared.
NativePoseidonAfter(cfg, params, n, st) ==
    IF n = 0 THEN st
    ELSE LET half == cfg.FULL_ROUNDS \div 2
             full == (n - 1 < half) \/ (n - 1 >= half + cfg.PARTIAL_ROUNDS)
         IN Evaluate({NativePoseidonRound(cfg, params, full, prev, (n - 1) * cfg.WIDTH) :
                        prev \in {NativePoseidonAfter(cfg, params, n - 1, st)}})

\* Element 0 of the final state.
NativePoseidon(cfg, params, st) ==
    NativePoseidonAfter(cfg, params,
                        2 * (cfg.FULL_ROUNDS \div 2) + cfg.PARTIAL_ROUNDS, st)[1]

\* Native evaluate: pack, reject more than WIDTH elements, right-pad with
\* zeros to WIDTH, permute, return the first output; << >> on rejection.
NativeEvaluate(g, cfg, params, bytes) ==
    LET f == to_field_elements(bytes)
        padded == f \o [z \in 1..(cfg.WIDTH - Len(f)) |-> 0]
    IN  IF Len(f) > cfg.WIDTH THEN << >>
        ELSE IF g = "mimc" THEN <<NativeMimc(params, padded)>>
        ELSE <<NativePoseidon(cfg, params, padded)>>

(***************************************************************************)
(* C1: native/gadget equivalence                                           *)
(***************************************************************************)

\* C1: whenever the gadget evaluate (MiMC or Poseidon) returns an output
\* variable, for an aligned or an unaligned input, its value is the field
\* element native evaluate returns for the same parameters and bytes.
NativeGadgetEquivalence ==
    h_pc = "done" =>
      /\ Len(h_result) = 1
      /\ h_result = NativeEvaluate(gadget, h_P, h_parameters, input)

\* An unaligned input, shorter than the state, hashed by a gadget with
\* rounds of every kind.
NativeGadgetEquivalenceWitness ==
    /\ h_pc = "done"
    /\ op = "evaluate"
    /\ Len(input) % ChunkSize # 0
    /\ Len(f_var_inputs) < h_P.WIDTH
    /\ h_result # <<0>>
    /\ \/ gadget = "mimc" /\ h_parameters.rounds >= 3
       \/ gadget = "poseidon" /\ h_P.FULL_ROUNDS >= 2 /\ h_P.PARTIAL_ROUNDS >= 1

(***************************************************************************)
(* C2: width overflow is rejected, nothing is truncated                    *)
(***************************************************************************)

\* C2: once evaluate has run on n packed elements: if n > WIDTH it has
\* panicked on the width check with no buffer and no output; otherwise it did
\* not panic on the width check, and the state handed to the permutation has
\* exactly WIDTH elements, the n packed elements in their order followed by
\* WIDTH - n zeros, and an output is the first output of the permutation of
\* that state.
WidthOverflowRejected ==
    (h_pc \in {"done", "panic"} /\ error # "length_mismatch") =>
      LET n == Len(f_var_inputs)
      IN  /\ f_var_inputs = to_field_var_elements(input)
          /\ n > h_P.WIDTH =>
               /\ h_pc = "panic"
               /\ error = "width"
               /\ h_buffer = << >>
               /\ h_result = << >>
          /\ n <= h_P.WIDTH =>
               /\ error # "width"
               /\ Len(h_buffer) = h_P.WIDTH
               /\ SubSeq(h_buffer, 1, n) = f_var_inputs
               /\ \A j \in (n + 1)..h_P.WIDTH : h_buffer[j] = 0
               /\ h_pc = "done" =>
                    h_result = IF gadget = "mimc"
                               THEN <<mimc(h_parameters, h_buffer).outs[1]>>
                               ELSE <<permute(h_P, h_parameters, h_buffer).state[1]>>

\* An input that packs to one element more than a WIDTH >= 2 was rejected.
WidthOverflowRejectedWitness ==
    /\ h_pc = "panic"
    /\ error = "width"
    /\ h_P.WIDTH >= 2
    /\ Len(f_var_inputs) = h_P.WIDTH + 1

(***************************************************************************)
(* C3: the two-to-one combination                                          *)
(***************************************************************************)

\* C3: a two-to-one call with operands of unequal length panics on the
\* length check with nothing packed, no buffer built and no output; with
\* operands of equal length it calls evaluate on left followed by right, and
\* ends as evaluate ends on those bytes: the same output, or the same panic
\* (the width overflow included).
TwoToOneCombination ==
    op = "two_to_one" =>
      /\ Len(left_input) # Len(right_input) =>
           /\ h_pc \in {"two_to_one", "panic"}
           /\ h_pc = "panic" => error = "length_mismatch"
           /\ input = << >>
           /\ f_var_inputs = << >>
           /\ h_buffer = << >>
           /\ h_result = << >>
      /\ (Len(left_input) = Len(right_input) /\ h_pc # "two_to_one") =>
           /\ input = left_input \o right_input
           /\ error # "length_mismatch"
           /\ h_pc \in {"done", "panic"} =>
                LET e == GadgetEvaluate(gadget, h_P, h_parameters,
                                        left_input \o right_input)
                IN  /\ h_result = e.result
                    /\ error = e.error
                    /\ h_pc = "done" <=> e.error = ""

\* A finished combination of two different one-byte operands.
TwoToOneCombinationWitness ==
    /\ op = "two_to_one"
    /\ h_pc = "done"
    /\ Len(left_input) = 1
    /\ Len(right_input) = 1
    /\ left_input # right_input
    /\ Len(h_result) = 1


(***************************************************************************)
(* The mixer leaf: generate_secrets, create_leaf, create_nullifier         *)
(***************************************************************************)

\* Widths of the hasher the leaf is instantiated with: the three secrets of a
\* leaf fill three chunks, the two copies of the nullifier fill two.
MixerWidths == {2, 3}

\* to_bytes! of one field element: ChunkSize bytes, little-endian.
ToBytes(x) ==
    LET digit[n \in 0..ChunkSize] ==
          IF n = 0 THEN x ELSE digit[n - 1] \div ByteBase
    IN [j \in 1..ChunkSize |-> digit[j - 1] % ByteBase]

\* A variant of the nullifier preimage that starts with r.
NullifierPreimageWithR(s) == ToBytes(s.r) \o ToBytes(s.nullifier)

\* to_bytes![s.r, s.nullifier, s.rho]
LeafPreimage(s) == ToBytes(s.r) \o ToBytes(s.nullifier) \o ToBytes(s.rho)

\* to_bytes![s.nullifier, s.nullifier]
NullifierPreimage(s) == ToBytes(s.nullifier) \o ToBytes(s.nullifier)

\* H::evaluate of the hasher the leaf is instantiated with.
HasherEvaluate(g, cfg, params, bytes) == NativeEvaluate(g, cfg, params, bytes)

\* create_leaf: the public argument is not read.
create_leaf(g, cfg, s, params) == HasherEvaluate(g, cfg, params, LeafPreimage(s))

create_nullifier(g, cfg, s, params) ==
    HasherEvaluate(g, cfg, params, NullifierPreimage(s))

\* Private::generate draws each of the three secrets from the field.
Private == [r : Field, nullifier : Field, rho : Field]

MixerConfigs(g) ==
    IF g = "mimc"
    THEN [WIDTH : MixerWidths, ROUNDS : {MaxRounds}]
    ELSE [WIDTH : MixerWidths, FULL_ROUNDS : {MaxFullRounds},
          PARTIAL_ROUNDS : {MaxPartialRounds}, SBOX : SboxDegrees]

MixerParams(g, cfg) ==
    IF g = "mimc"
    THEN [k : KVals, rounds : {cfg.ROUNDS}, num_inputs : {cfg.WIDTH},
          num_outputs : {1}, round_keys : {KeyStream(cfg.ROUNDS)}]
    ELSE {[round_keys |-> KeyStream(cfg.WIDTH * (cfg.FULL_ROUNDS + cfg.PARTIAL_ROUNDS)),
           mds_matrix |-> MdsMatrix(cfg.WIDTH)]}

MixerInit ==
    /\ hasher \in {"mimc", "poseidon"}
    /\ hasher_P \in MixerConfigs(hasher)
    /\ h \in MixerParams(hasher, hasher_P)
    /\ secrets = [r |-> 0, nullifier |-> 0, rho |-> 0]
    /\ input_bytes = << >> /\ nullifier_bytes = << >>
    /\ leaf = << >> /\ nullifier_hash = << >> /\ called = {}
    /\ FeistelIdle
    /\ PoseidonIdle
    /\ MimcIdle
    /\ HashIdle
    /\ AllocIdle

GenerateSecrets ==
    /\ called = {}
    /\ secrets' \in Private
    /\ called' = {"generate_secrets"}
    /\ UNCHANGED <<hasher, hasher_P, h, input_bytes, nullifier_bytes, leaf,
                   nullifier_hash>>
    /\ MixerFrame

CreateLeaf ==
    /\ "create_leaf" \notin called
    /\ input_bytes' = LeafPreimage(secrets)
    /\ leaf' = create_leaf(hasher, hasher_P, secrets, h)
    /\ called' = called \cup {"create_leaf"}
    /\ UNCHANGED <<hasher, hasher_P, h, secrets, nullifier_bytes, nullifier_hash>>
    /\ MixerFrame

CreateNullifier ==
    /\ "create_nullifier" \notin called
    /\ nullifier_bytes' = NullifierPreimage(secrets)
    /\ nullifier_hash' = create_nullifier(hasher, hasher_P, secrets, h)
    /\ called' = called \cup {"create_nullifier"}
    /\ UNCHANGED <<hasher, hasher_P, h, secrets, input_bytes, leaf>>
    /\ MixerFrame

MixerNext ==
    \/ GenerateSecrets
    \/ CreateLeaf
    \/ CreateNullifier

SpecMixer == MixerInit /\ [][MixerNext]_vars

\* C4: create_leaf returns the hasher's evaluate of the bytes of r, then
\* nullifier, then rho; create_nullifier returns the hasher's evaluate of the
\* bytes of nullifier twice, and that value is the same for every r and rho.
MixerCommitments ==
    /\ "create_leaf" \in called =>
         /\ input_bytes = ToBytes(secrets.r) \o ToBytes(secrets.nullifier)
                            \o ToBytes(secrets.rho)
         /\ leaf = HasherEvaluate(hasher, hasher_P, h, input_bytes)
    /\ "create_nullifier" \in called =>
         /\ nullifier_bytes = ToBytes(secrets.nullifier) \o ToBytes(secrets.nullifier)
         /\ nullifier_hash = HasherEvaluate(hasher, hasher_P, h, nullifier_bytes)
         /\ \A r2 \in Field, rho2 \in Field :
              create_nullifier(hasher, hasher_P,
                               [r |-> r2, nullifier |-> secrets.nullifier,
                                rho |-> rho2], h) = nullifier_hash

\* Both values have been produced from three distinct generated secrets.
MixerCommitmentsWitness ==
    /\ called = {"generate_secrets", "create_leaf", "create_nullifier"}
    /\ leaf # << >> /\ nullifier_hash # << >>
    /\ leaf # nullifier_hash
    /\ Cardinality({secrets.r, secrets.nullifier, secrets.rho}) = 3

(***************************************************************************)
(* Parameter allocation: AllocVar::new_variable of both parameter types    *)
(***************************************************************************)

\* Bytes a circuit allocates as inputs before its parameters.
MaxAllocatedBytes == 2

\* Bits of a UInt8.
ByteBits == 8

AllocationModes == {"Constant", "Input", "Witness"}

\* A variant that allocates the value as a witness variable.
FpVarWitness(v) == [kind |-> "Var", value |-> v]

\* FpVar::Constant(v)
FpVarConstant(v) == [kind |-> "Constant", value |-> v]

\* ConstraintSystem::new_ref(): the variable One and nothing else.
NewConstraintSystem ==
    [num_instance_variables |-> 1, num_witness_variables |-> 0,
     num_constraints |-> 0]

NativeMimcParams ==
    [k : KVals, rounds : {0, MaxRounds}, num_inputs : 1..MaxWidth,
     num_outputs : 0..MaxOutputs,
     round_keys : {KeyStream(n) : n \in 0..MaxRounds}]

NativePoseidonParams ==
    [round_keys : {KeyStream(n) : n \in 0..MaxRounds},
     mds_matrix : {MdsMatrix(w) : w \in 0..MaxWidth}]

IsPoseidonParams(params) == "mds_matrix" \in DOMAIN params

\* MiMCParametersVar::new_variable
NewMimcParametersVar(params) ==
    [round_keys  |-> [j \in 1..Len(params.round_keys) |->
                        FpVarConstant(params.round_keys[j])],
     k           |-> FpVarConstant(params.k),
     rounds      |-> params.rounds,
     num_inputs  |-> params.num_inputs,
     num_outputs |-> params.num_outputs]

\* PoseidonParametersVar::new_variable
NewPoseidonParametersVar(params) ==
    [round_keys |-> [j \in 1..Len(params.round_keys) |->
                       FpVarConstant(params.round_keys[j])],
     mds_matrix |-> [a \in 1..Len(params.mds_matrix) |->
                       [b \in 1..Len(params.mds_matrix[a]) |->
                          FpVarConstant(params.mds_matrix[a][b])]]]

AllocInit ==
    /\ native_params \in NativeMimcParams \cup NativePoseidonParams
    /\ mode = "none"
    /\ cs = NewConstraintSystem
    /\ cs_before = cs
    /\ params_var = [round_keys |-> << >>, mds_matrix |-> << >>]
    /\ a_pc = "building"
    /\ FeistelIdle
    /\ PoseidonIdle
    /\ MimcIdle
    /\ HashIdle
    /\ MixerIdle

\* UInt8::new_input of one byte: an instance variable and a booleanity
\* constraint per bit.
NewInputByte ==
    /\ a_pc = "building"
    /\ cs.num_instance_variables < 1 + ByteBits * MaxAllocatedBytes
    /\ cs' = [cs EXCEPT !.num_instance_variables = @ + ByteBits,
                        !.num_constraints = @ + ByteBits]
    /\ UNCHANGED <<native_params, mode, cs_before, params_var, a_pc>>
    /\ AllocFrame

\* new_variable(_cs, f, _mode) with f returning the parameters.
NewVariable(md) ==
    /\ a_pc = "building"
    /\ mode' = md
    /\ cs_before' = cs
    /\ params_var' = IF IsPoseidonParams(native_params)
                     THEN NewPoseidonParametersVar(native_params)
                     ELSE NewMimcParametersVar(native_params)
    /\ a_pc' = "allocated"
    /\ UNCHANGED <<native_params, cs>>
    /\ AllocFrame

\* new_variable with f returning an error: the error is passed on.
NewVariableError(md) ==
    /\ a_pc = "building"
    /\ mode' = md
    /\ cs_before' = cs
    /\ a_pc' = "SynthesisError"
    /\ UNCHANGED <<native_params, cs, params_var>>
    /\ AllocFrame

AllocNext ==
    \/ NewInputByte
    \/ \E md \in AllocationModes : NewVariable(md)
    \/ \E md \in AllocationModes : NewVariableError(md)

SpecAlloc == AllocInit /\ [][AllocNext]_vars

IsConstantOf(var, v) == var.kind = "Constant" /\ var.value = v

\* C5: in every allocation mode the allocated parameters are constants only,
\* with the values of the native parameters in the same order (the round
\* keys; for Poseidon every entry of the mixing matrix; for MiMC also k,
\* rounds, num_inputs and num_outputs), and the constraint system has the
\* variables and constraints it had before the allocation.
ParametersNeverWitnessed ==
    a_pc = "allocated" =>
      /\ mode \in AllocationModes
      /\ Len(params_var.round_keys) = Len(native_params.round_keys)
      /\ \A j \in 1..Len(native_params.round_keys) :
            IsConstantOf(params_var.round_keys[j], native_params.round_keys[j])
      /\ IsPoseidonParams(native_params) =>
            /\ DOMAIN params_var = {"round_keys", "mds_matrix"}
            /\ Len(params_var.mds_matrix) = Len(native_params.mds_matrix)
            /\ \A a \in 1..Len(native_params.mds_matrix) :
                 /\ Len(params_var.mds_matrix[a]) = Len(native_params.mds_matrix[a])
                 /\ \A b \in 1..Len(native_params.mds_matrix[a]) :
                      IsConstantOf(params_var.mds_matrix[a][b],
                                   native_params.mds_matrix[a][b])
      /\ ~IsPoseidonParams(native_params) =>
            /\ IsConstantOf(params_var.k, native_params.k)
            /\ params_var.rounds = native_params.rounds
            /\ params_var.num_inputs = native_params.num_inputs
            /\ params_var.num_outputs = native_params.num_outputs
      /\ cs = cs_before

\* Poseidon parameters with several keys and a full matrix were allocated in
\* Witness mode into a constraint system that already holds inputs.
ParametersNeverWitnessedWitness ==
    /\ a_pc = "allocated"
    /\ mode = "Witness"
    /\ IsPoseidonParams(native_params)
    /\ Len(native_params.round_keys) >= 2
    /\ Len(native_params.mds_matrix) >= 2
    /\ cs.num_instance_variables > 1

====
